---- MODULE Spec2Model ----
(***************************************************************************)
(* A model of bigquery_etl/udf/parse_udf.py: RawUdf.from_text (statement   *)
(* classification, name resolution, dependency extraction), the recursive  *)
(* accumulate_dependencies, and the test rewriting of sub_local_routines.  *)
(*                                                                         *)
(* SQL text is modelled as a sequence of tokens.  A token is a keyword     *)
(* chunk or a routine reference  [mozfun.][_generic_dataset_.]ds<sep>nm .  *)
(* Identifiers are atomic: no identifier of the universe is a substring of *)
(* another one, so Python's substring test `x in text` is containment of   *)
(* a token (or of a contiguous run of tokens).                             *)
(***************************************************************************)
EXTENDS Integers, Sequences, FiniteSets, TLC

VARIABLES
    \* ---- module state and inputs shared by the rewriting functions
    MOZFUN_ROUTINES,   \* the library registry, a list of [name, is_udf]
    raw_udfs,          \* the catalog: name -> [definitions, dependencies]
    text,              \* the SQL text handed to udf_usage_definitions
    \* ---- udf_usage_definitions / accumulate_dependencies
    pc,                \* position in the rewriting pipeline
    usages,            \* the usages still to be resolved
    deps,              \* the accumulated list of routine names
    stack,             \* call stack of accumulate_dependencies frames
    last,              \* the last completed top-level accumulate call
    statements,        \* the definitions collected by udf_usage_definitions
    sql,               \* the text being rewritten by sub_local_routines
    combined,          \* the text as prepend_udf_usage_definitions returned it
    ri,                \* index of the registry routine the loop is at
    \* ---- RawUdf.from_text
    fpc,               \* position in from_text
    input,             \* [statements, dataset, name, is_defined]
    i,                 \* loop index of the classification loop (1-based)
    definitions,
    tests,
    internal_name,
    is_stored_procedure,
    procedure_start,   \* 1-based index of the span start, or -1
    dependencies,      \* the list built at lines 148-160
    result             \* "" while running, "RawUdf" or the error raised

vars == << MOZFUN_ROUTINES, raw_udfs, text, pc, usages, deps, stack, last,
           statements, sql, combined, ri, fpc, input, i, definitions, tests,
           internal_name, is_stored_procedure, procedure_start, dependencies,
           result >>

rewriteVars == << pc, usages, deps, stack, last, statements, sql, combined, ri >>
parseVars == << fpc, i, definitions, tests, internal_name,
                is_stored_procedure, procedure_start, dependencies, result >>

\* What the rewriting functions leave alone: their inputs and from_text's state.
RewriteFrame == UNCHANGED << MOZFUN_ROUTINES, raw_udfs, text, input, parseVars >>
\* What from_text leaves alone: its input and the rewriting functions' state.
ParseFrame == UNCHANGED << MOZFUN_ROUTINES, raw_udfs, text, input, rewriteVars >>

-----------------------------------------------------------------------------
(* Bounds of the model *)

\* Python's recursion limit, scaled down: the number of nested
\* accumulate_dependencies frames the interpreter allows.
RecursionLimit == 6
\* The most dependencies a cataloged routine has in the resolver's inputs.
MaxDeps == 2
\* The most routine references in a test text.
MaxRefs == 2
\* The most statements of an input to from_text.
MaxStatements == 3

-----------------------------------------------------------------------------
(* Names and tokens *)

Datasets == {"udf", "norm"}
Idents == {"f", "g", "p"}
NoName == [ds |-> "", sep |-> "", nm |-> ""]

N(ds, sep, nm) == [ds |-> ds, sep |-> sep, nm |-> nm]

\* f"{dataset}.{name}" and f"{dataset}_{name}"
PersistentName(ds, nm) == N(ds, ".", nm)
TempName(ds, nm) == N(ds, "_", nm)

Kw(w) == [k |-> "kw", w |-> w, moz |-> FALSE, gen |-> FALSE,
          ds |-> "", sep |-> "", nm |-> ""]
Ref(moz, n) == [k |-> "ref", w |-> "", moz |-> moz, gen |-> FALSE,
                ds |-> n.ds, sep |-> n.sep, nm |-> n.nm]
NameOf(t) == N(t.ds, t.sep, t.nm)

\* (?:udf|assert){UDF_CHAR}* : the dataset part PERSISTENT_UDF_RE accepts
UdfLike(ds) == ds \in {"udf", "assert"}

\* Python's string order on the names of the universe: compare
\* ds + sep + nm ("norm" < "udf", "." < "_", identifiers alphabetically).
DsRank == ("" :> 0) @@ ("norm" :> 1) @@ ("udf" :> 2)
SepRank == ("" :> 0) @@ ("." :> 1) @@ ("_" :> 2)
NmRank == ("" :> 0) @@ ("9" :> 0) @@ ("f" :> 1) @@ ("g" :> 2) @@ ("p" :> 3)
NameRank(n) == DsRank[n.ds] * 100 + SepRank[n.sep] * 10 + NmRank[n.nm]

RECURSIVE Sorted(_)
\* sorted(set(...)) on a set of names
Sorted(S) ==
    IF S = {} THEN << >>
    ELSE LET m == CHOOSE x \in S : \A y \in S : NameRank(x) <= NameRank(y)
         IN  << m >> \o Sorted(S \ {m})

Range(s) == { s[j] : j \in 1..Len(s) }
IndexOfName(s, x) == CHOOSE j \in 1..Len(s) : s[j] = x

\* `a in b` for token sequences: a is a contiguous run of b
IsSubSeq(a, b) ==
    \E o \in 0..(Len(b) - Len(a)) : \A j \in 1..Len(a) : b[o + j] = a[j]

RECURSIVE Flatten(_)
Flatten(ss) == IF ss = << >> THEN << >> ELSE Head(ss) \o Flatten(Tail(ss))

-----------------------------------------------------------------------------
(* Reference extraction *)

\* PERSISTENT_UDF_RE.findall, joined with ".": the matches in text order
PersistentMatches(s) ==
    SelectSeq(s, LAMBDA t : t.k = "ref" /\ t.sep = "." /\ UdfLike(t.ds))

\* TEMP_UDF_RE.findall: `udf_...` / `assert_...`
TempMatches(s) ==
    SelectSeq(s, LAMBDA t : t.k = "ref" /\ t.sep = "_" /\ UdfLike(t.ds)
                            /\ ~t.moz)

\* routine["name"] in sql
NameInText(n, s) ==
    \E j \in 1..Len(s) : s[j].k = "ref" /\ s[j].sep = "."
                         /\ s[j].ds = n.ds /\ s[j].nm = n.nm

\* udf_usages_in_text
udf_usages_in_text(s) ==
    Sorted({ NameOf(t) : t \in Range(PersistentMatches(s)) }
           \cup { NameOf(t) : t \in Range(TempMatches(s)) }
           \cup { MOZFUN_ROUTINES[j].name : j \in
                    { r \in 1..Len(MOZFUN_ROUTINES) :
                        NameInText(MOZFUN_ROUTINES[r].name, s) } })

-----------------------------------------------------------------------------
(* accumulate_dependencies, one frame step at a time *)

Frame(n) == [name |-> n, at |-> 0]

AppendAlways(d, udf_name) == d \o << udf_name >>
PutFirst(d, udf_name) ==
    IF udf_name \in Range(d) THEN d ELSE << udf_name >> \o d

\* lines 244-247: the name goes last, once
AppendIfAbsent(d, udf_name) ==
    IF udf_name \in Range(d) THEN d ELSE d \o << udf_name >>

Top == stack[Len(stack)]
Pop == SubSeq(stack, 1, Len(stack) - 1)

\* The caller's continuation once the outermost frame has returned.
Returned(d) ==
    IF Len(stack) = 1
    THEN /\ pc' = "usages"
         /\ last' = [last EXCEPT !.result = d, !.done = TRUE]
    ELSE /\ pc' = "call"
         /\ last' = last

\* for udf_usage in udf_usages_in_text(text): deps = accumulate_dependencies(...)
StartUsage ==
    /\ RewriteFrame
    /\ pc = "usages"
    /\ usages # << >>
    /\ stack' = << Frame(Head(usages)) >>
    /\ usages' = Tail(usages)
    /\ pc' = "call"
    /\ last' = [name |-> Head(usages), arg |-> deps, result |-> << >>,
                done |-> FALSE]
    /\ UNCHANGED << deps, statements, sql, combined, ri >>

\* lines 238-239: a name that is not cataloged returns deps as it is
ReturnUnknown ==
    /\ RewriteFrame
    /\ pc = "call"
    /\ Top.name \notin DOMAIN raw_udfs
    /\ stack' = Pop
    /\ Returned(deps)
    /\ UNCHANGED << usages, deps, statements, sql, combined, ri >>

\* lines 242-243: recurse into the next dependency
Recurse ==
    /\ RewriteFrame
    /\ pc = "call"
    /\ Top.name \in DOMAIN raw_udfs
    /\ Top.at < Len(raw_udfs[Top.name].dependencies)
    /\ IF Len(stack) >= RecursionLimit
       THEN \* the interpreter's stack is exhausted
            /\ pc' = "RecursionError"
            /\ stack' = stack
       ELSE /\ pc' = "call"
            /\ stack' = [stack EXCEPT ![Len(stack)].at = @ + 1]
                        \o << Frame(raw_udfs[Top.name].dependencies[Top.at + 1]) >>
    /\ UNCHANGED << usages, deps, last, statements, sql, combined, ri >>

\* lines 244-247: after the loop
ReturnKnown ==
    /\ RewriteFrame
    /\ pc = "call"
    /\ Top.name \in DOMAIN raw_udfs
    /\ Top.at = Len(raw_udfs[Top.name].dependencies)
    /\ deps' = AppendIfAbsent(deps, Top.name)
    /\ stack' = Pop
    /\ Returned(deps')
    /\ UNCHANGED << usages, statements, sql, combined, ri >>

-----------------------------------------------------------------------------
(* udf_usage_definitions, prepend_udf_usage_definitions, sub_local_routines *)

ReversedDefinitions(d, catalog, t) ==
    LET RECURSIVE Rev(_)
        Rev(q) == IF q = << >> THEN << >>
                  ELSE Rev(Tail(q)) \o
                       SelectSeq(catalog[Head(q)].definitions,
                                 LAMBDA st : ~IsSubSeq(st, t))
    IN  Rev(d)

\* lines 280-285: the definitions of deps, in order, that text does not hold
UsageDefinitions(d, catalog, t) ==
    LET RECURSIVE Defs(_)
        Defs(q) == IF q = << >> THEN << >>
                   ELSE SelectSeq(catalog[Head(q)].definitions,
                                  LAMBDA st : ~IsSubSeq(st, t))
                        \o Defs(Tail(q))
    IN  Defs(d)

\* line 327: "\n\n".join(statements + [text])
Prepend(ss, t) == Flatten(ss) \o t

\* PERSISTENT_UDF_RE.sub(r"\1_\2", text)
sub_persistent_udf_names_as_temp(s) ==
    [j \in 1..Len(s) |->
        IF s[j].k = "ref" /\ s[j].sep = "." /\ UdfLike(s[j].ds)
        THEN [s[j] EXCEPT !.sep = "_"]
        ELSE s[j]]

\* lines 299-303: re.sub(r"(?:mozfun.)?" + name, replace_name, sql); the dot
\* of the name is a regex wildcard, so ds_nm is matched like ds.nm
SubRoutine(routine, s) ==
    [j \in 1..Len(s) |->
        IF s[j].k = "ref" /\ s[j].ds = routine.name.ds
           /\ s[j].nm = routine.name.nm
        THEN [s[j] EXCEPT !.sep = "_", !.moz = FALSE,
                          !.gen = (@ \/ ~routine.is_udf)]
        ELSE s[j]]

\* PERSISTENT_UDF_PREFIX.sub("CREATE TEMP FUNCTION", sql)
SubPrefix(s) ==
    [j \in 1..Len(s) |->
        IF s[j].k = "kw" /\ s[j].w = "create or replace function"
        THEN Kw("create temp function")
        ELSE s[j]]

\* udf_usage_definitions' return and prepend_udf_usage_definitions
Definitions ==
    /\ RewriteFrame
    /\ pc = "usages"
    /\ usages = << >>
    /\ statements' = UsageDefinitions(deps, raw_udfs, text)
    /\ sql' = Prepend(statements', text)
    /\ combined' = sql'
    /\ pc' = "prepended"
    /\ UNCHANGED << usages, deps, stack, last, ri >>

\* line 295
SubPersistent ==
    /\ RewriteFrame
    /\ pc = "prepended"
    /\ sql' = sub_persistent_udf_names_as_temp(sql)
    /\ pc' = "mozfun"
    /\ ri' = 1
    /\ UNCHANGED << usages, deps, stack, last, statements, combined >>

\* lines 297-303, one registry routine whose name is in sql
MozfunReplace ==
    /\ RewriteFrame
    /\ pc = "mozfun"
    /\ ri <= Len(MOZFUN_ROUTINES)
    /\ NameInText(MOZFUN_ROUTINES[ri].name, sql)
    /\ sql' = SubRoutine(MOZFUN_ROUTINES[ri], sql)
    /\ ri' = ri + 1
    /\ UNCHANGED << pc, usages, deps, stack, last, statements, combined >>

\* lines 297-298, one registry routine whose name is not in sql
MozfunSkip ==
    /\ RewriteFrame
    /\ pc = "mozfun"
    /\ ri <= Len(MOZFUN_ROUTINES)
    /\ ~NameInText(MOZFUN_ROUTINES[ri].name, sql)
    /\ ri' = ri + 1
    /\ UNCHANGED << pc, usages, deps, stack, last, statements, sql, combined >>

\* lines 305-306
Finish ==
    /\ RewriteFrame
    /\ pc = "mozfun"
    /\ ri > Len(MOZFUN_ROUTINES)
    /\ sql' = SubPrefix(sql)
    /\ pc' = "done"
    /\ UNCHANGED << usages, deps, stack, last, statements, combined, ri >>

-----------------------------------------------------------------------------
(* Inputs *)

\* A definition statement as from_text would have read it: the creation
\* preamble, the routine's own name, and a reference per dependency.
DefStmt(n, D, proc) ==
    << Kw(IF proc THEN "create or replace procedure"
                  ELSE "create or replace function"),
       Ref(FALSE, n) >>
    \o [j \in 1..Cardinality(D) |-> Ref(FALSE, Sorted(D)[j])]

RawUdf(n, D, proc) ==
    [definitions |-> << DefStmt(n, D, proc) >>,
     dependencies |-> Sorted(D),
     is_stored_procedure |-> proc]

IsProcName(n) == n.nm = "p"

SeqsUpTo(S, n) == UNION { [1..m -> S] : m \in 0..n }

\* The catalogs of the resolver's inputs: any routines among CatNames, each
\* depending on at most MaxDeps of them (itself included).
CatNames == { PersistentName("udf", nm) : nm \in Idents }
DepSets == { D \in SUBSET CatNames : Cardinality(D) <= MaxDeps }
Catalogs ==
    UNION { { [n \in dom |-> RawUdf(n, dp[n], IsProcName(n))] :
              dp \in [dom -> DepSets] } : dom \in SUBSET CatNames }

NoCall == [name |-> NoName, arg |-> << >>, result |-> << >>, done |-> FALSE]

ParseIdle ==
    /\ fpc = "idle"
    /\ input = [statements |-> << >>, dataset |-> "", name |-> "",
                is_defined |-> TRUE]
    /\ i = 0
    /\ definitions = << >>
    /\ tests = << >>
    /\ internal_name = NoName
    /\ is_stored_procedure = FALSE
    /\ procedure_start = -1
    /\ dependencies = << >>
    /\ result = ""

RewriteStart ==
    /\ pc = "usages"
    /\ usages = udf_usages_in_text(text)
    /\ deps = << >>
    /\ stack = << >>
    /\ last = NoCall
    /\ statements = << >>
    /\ sql = text
    /\ combined = << >>
    /\ ri = 0

\* udf_usage_definitions(text, raw_udfs) on every catalog and every text of
\* up to MaxRefs references, or the definition statement of a cataloged
\* routine (a stored procedure's definition is its own test)
InitResolve ==
    /\ MOZFUN_ROUTINES = << >>
    /\ raw_udfs \in Catalogs
    /\ text \in { [j \in DOMAIN s |-> Ref(FALSE, s[j])] :
                    s \in SeqsUpTo(CatNames, MaxRefs) }
                \cup { raw_udfs[n].definitions[1] \o << Ref(FALSE, m) >> :
                         n \in DOMAIN raw_udfs, m \in CatNames }
                \cup { raw_udfs[n].definitions[1] : n \in DOMAIN raw_udfs }
    /\ RewriteStart
    /\ ParseIdle

NextResolve ==
    \/ StartUsage
    \/ ReturnUnknown
    \/ Recurse
    \/ ReturnKnown
    \/ Definitions

SpecResolve == InitResolve /\ [][NextResolve]_vars

-----------------------------------------------------------------------------
(* RawUdf.from_text *)

\* normalized_statement.startswith(prefix)
StartsWith(st, prefix) == Len(st) > 0 /\ st[1].k = "kw" /\ st[1].w = prefix
\* normalized_statement.endswith("end;")
EndsWithEnd(st) ==
    Len(st) > 0 /\ st[Len(st)].k = "kw" /\ st[Len(st)].w = "end;"

\* persistent_name in normalized_statement / temp_name in normalized_statement
NameInStatement(n, st) ==
    \E j \in 1..Len(st) : st[j].k = "ref" /\ NameOf(st[j]) = n

\* UDF_NAME_RE: an optional `dataset.` and an identifier starting with a letter
AlphaStart(id) == id \in {"f", "g", "p", "udf", "norm"}
UDF_NAME_RE(n) ==
    IF n.sep = "_" THEN AlphaStart(n.ds) ELSE AlphaStart(n.nm)

Statement == input.statements[i]
persistent_name == PersistentName(input.dataset, input.name)
temp_name == TempName(input.dataset, input.name)
prod_name == N("", "", input.name)

KeepTests(ts, st) == ts

\* line 120: a stored procedure's definition is also its test
ProcedureTests(ts, st) == Append(ts, st)

\* lines 107-110
ClassifyFunction ==
    /\ ParseFrame
    /\ fpc = "loop" /\ i <= Len(input.statements)
    /\ StartsWith(Statement, "create or replace function")
    /\ definitions' = Append(definitions, Statement)
    /\ internal_name' = IF NameInStatement(persistent_name, Statement)
                        THEN persistent_name ELSE internal_name
    /\ i' = i + 1
    /\ UNCHANGED << fpc, tests, is_stored_procedure, procedure_start,
                    dependencies, result >>

\* lines 112-115
ClassifyTemp ==
    /\ ParseFrame
    /\ fpc = "loop" /\ i <= Len(input.statements)
    /\ StartsWith(Statement, "create temp function")
    /\ definitions' = Append(definitions, Statement)
    /\ internal_name' = IF NameInStatement(temp_name, Statement)
                        THEN temp_name ELSE internal_name
    /\ i' = i + 1
    /\ UNCHANGED << fpc, tests, is_stored_procedure, procedure_start,
                    dependencies, result >>

\* lines 117-122
ClassifyProcedure ==
    /\ ParseFrame
    /\ fpc = "loop" /\ i <= Len(input.statements)
    /\ StartsWith(Statement, "create or replace procedure")
    /\ is_stored_procedure' = TRUE
    /\ definitions' = Append(definitions, Statement)
    /\ tests' = ProcedureTests(tests, Statement)
    /\ internal_name' = IF NameInStatement(persistent_name, Statement)
                        THEN persistent_name ELSE internal_name
    /\ i' = i + 1
    /\ UNCHANGED << fpc, procedure_start, dependencies, result >>

\* lines 124-133: a free-standing statement
ClassifyOther ==
    /\ ParseFrame
    /\ fpc = "loop" /\ i <= Len(input.statements)
    /\ ~StartsWith(Statement, "create or replace function")
    /\ ~StartsWith(Statement, "create temp function")
    /\ ~StartsWith(Statement, "create or replace procedure")
    /\ LET start == IF StartsWith(Statement, "begin")
                    THEN i ELSE procedure_start
           alone == IF start = -1 THEN Append(tests, Statement) ELSE tests
       IN  IF start > -1 /\ EndsWithEnd(Statement)
           THEN /\ tests' = Append(alone,
                              Flatten(SubSeq(input.statements, start, i)))
                /\ procedure_start' = -1
           ELSE /\ tests' = alone
                /\ procedure_start' = start
    /\ i' = i + 1
    /\ UNCHANGED << fpc, definitions, internal_name, is_stored_procedure,
                    dependencies, result >>

\* lines 135-145: for name in (prod_name, internal_name)
CheckNames ==
    /\ ParseFrame
    /\ fpc = "loop" /\ i > Len(input.statements)
    /\ IF input.is_defined /\ ~UDF_NAME_RE(prod_name)
       THEN fpc' = "done" /\ result' = "ValueError: Invalid UDF name"
       ELSE IF internal_name = NoName
       THEN fpc' = "done" /\ result' = "ValueError: Expected a function"
       ELSE IF input.is_defined /\ ~UDF_NAME_RE(internal_name)
       THEN fpc' = "done" /\ result' = "ValueError: Invalid UDF name"
       ELSE fpc' = "extract" /\ result' = result
    /\ UNCHANGED << i, definitions, tests, internal_name,
                    is_stored_procedure, procedure_start, dependencies >>

\* lines 148-157: the usages found in the joined definitions, as a list
ExtractedDependencies(defs) ==
    LET joined == Flatten(defs)
        persistent == PersistentMatches(joined)
        temp == TempMatches(joined)
        library == SelectSeq(MOZFUN_ROUTINES,
                             LAMBDA udf : NameInText(udf.name, joined))
    IN  [j \in 1..Len(persistent) |-> NameOf(persistent[j])]
        \o [j \in 1..Len(temp) |-> NameOf(temp[j])]
        \o [j \in 1..Len(library) |-> library[j].name]

ExtractDependencies ==
    /\ ParseFrame
    /\ fpc = "extract"
    /\ dependencies' = ExtractedDependencies(definitions)
    /\ fpc' = "remove"
    /\ UNCHANGED << i, definitions, tests, internal_name,
                    is_stored_procedure, procedure_start, result >>

\* list.remove(x): the first occurrence of x
RemoveFirst(l, x) ==
    LET at == CHOOSE j \in 1..Len(l) :
                  l[j] = x /\ \A m \in 1..(j - 1) : l[m] # x
    IN  SubSeq(l, 1, at - 1) \o SubSeq(l, at + 1, Len(l))

\* lines 159-173
BuildRawUdf ==
    /\ ParseFrame
    /\ fpc = "remove"
    /\ fpc' = "done"
    /\ IF input.is_defined /\ internal_name \notin Range(dependencies)
       THEN /\ result' = "ValueError: list.remove(x): x not in list"
            /\ dependencies' = dependencies
       ELSE /\ result' = "RawUdf"
            /\ dependencies' =
                 Sorted(Range(IF input.is_defined
                              THEN RemoveFirst(dependencies, internal_name)
                              ELSE dependencies))
    /\ UNCHANGED << i, definitions, tests, internal_name,
                    is_stored_procedure, procedure_start >>

\* The statements of from_text's inputs, for a file of routine ds.nm: its
\* definition in each form, a helper definition, tests and BEGIN ... END; parts.
Stmt(head, names, end) ==
    << Kw(head) >> \o [j \in 1..Len(names) |-> Ref(FALSE, names[j])]
    \o (IF end THEN << Kw("end;") >> ELSE << >>)

StatementsOf(ds, nm) ==
    LET self == PersistentName(ds, nm)
        other == PersistentName("udf", "g")
    IN  { Stmt("create or replace function", << self >>, FALSE),
          Stmt("create or replace function", << self, self >>, FALSE),
          Stmt("create or replace function", << self, other >>, FALSE),
          Stmt("create or replace function", << other >>, FALSE),
          Stmt("create temp function", << TempName(ds, nm) >>, FALSE),
          Stmt("create or replace procedure", << self >>, TRUE),
          Stmt("begin", << >>, FALSE),
          Stmt("begin", << self >>, TRUE),
          Stmt("select", << self >>, FALSE),
          Stmt("select", << >>, TRUE),
          << Kw("end;") >> }

Files == { << "udf", "f" >>, << "norm", "f" >>, << "udf", "9" >> }

RewriteIdle ==
    /\ raw_udfs = << >>
    /\ text = << >>
    /\ pc = "idle"
    /\ usages = << >>
    /\ deps = << >>
    /\ stack = << >>
    /\ last = NoCall
    /\ statements = << >>
    /\ sql = << >>
    /\ combined = << >>
    /\ ri = 0

\* from_text(text, dataset, name, is_defined=...) on every file of up to
\* MaxStatements statements, the routine registered as a library routine or not
InitParse ==
    /\ \E f \in Files :
         /\ MOZFUN_ROUTINES \in
              { << >>, << [name |-> PersistentName(f[1], f[2]),
                           is_udf |-> TRUE] >> }
         /\ \E ss \in SeqsUpTo(StatementsOf(f[1], f[2]), MaxStatements),
               d \in BOOLEAN :
              input = [statements |-> ss, dataset |-> f[1], name |-> f[2],
                       is_defined |-> d]
    /\ fpc = "loop"
    /\ i = 1
    /\ definitions = << >>
    /\ tests = << >>
    /\ internal_name = NoName
    /\ is_stored_procedure = FALSE
    /\ procedure_start = -1
    /\ dependencies = << >>
    /\ result = ""
    /\ RewriteIdle

NextParse ==
    \/ ClassifyFunction
    \/ ClassifyTemp
    \/ ClassifyProcedure
    \/ ClassifyOther
    \/ CheckNames
    \/ ExtractDependencies
    \/ BuildRawUdf

SpecParse == InitParse /\ [][NextParse]_vars

-----------------------------------------------------------------------------
(* sub_local_routines on a test text, with a library registry *)

\* The library routines a registry may hold; each is a function or a procedure.
RegNames == { PersistentName("udf", "p"), PersistentName("norm", "f"),
              PersistentName("norm", "p") }
Registries ==
    UNION { { [j \in 1..Cardinality(dom) |->
                 [name |-> Sorted(dom)[j], is_udf |-> kind[Sorted(dom)[j]]]] :
              kind \in [dom -> BOOLEAN] } : dom \in SUBSET RegNames }

\* The catalog read from the library directory: empty, or every registered
\* routine, without dependencies or each depending on the next one.
LibraryCatalogs(reg) ==
    LET names == [j \in 1..Len(reg) |-> reg[j].name]
        Entry(j, chain) ==
            RawUdf(names[j],
                   IF chain /\ j < Len(reg) THEN { names[j + 1] } ELSE {},
                   ~reg[j].is_udf)
    IN  { << >> } \cup
        { [n \in Range(names) |-> Entry(IndexOfName(names, n), chain)] :
          chain \in BOOLEAN }

\* The references of a test text: ds.nm, ds_nm and mozfun.ds.nm
TextTokens ==
    { Ref(FALSE, N(ds, sep, nm)) :
        ds \in Datasets, sep \in {".", "_"}, nm \in {"f", "p"} }
    \cup { Ref(TRUE, PersistentName(ds, nm)) :
             ds \in Datasets, nm \in {"f", "p"} }

InitRewrite ==
    /\ MOZFUN_ROUTINES \in Registries
    /\ raw_udfs \in LibraryCatalogs(MOZFUN_ROUTINES)
    /\ text \in SeqsUpTo(TextTokens, MaxRefs)
    /\ RewriteStart
    /\ ParseIdle

NextRewrite ==
    \/ StartUsage
    \/ ReturnUnknown
    \/ Recurse
    \/ ReturnKnown
    \/ Definitions
    \/ SubPersistent
    \/ MozfunReplace
    \/ MozfunSkip
    \/ Finish

SpecRewrite == InitRewrite /\ [][NextRewrite]_vars

\* C6: every occurrence, in the test with its prepended definitions, of a
\* library-registered routine's qualified name is in the output the name
\* with `.` replaced by `_`, prefixed with `_generic_dataset_.` exactly when
\* the routine is a procedure.
C6_LibraryNamesRewritten ==
    pc = "done" =>
        \A j \in 1..Len(combined) : \A r \in 1..Len(MOZFUN_ROUTINES) :
            ( /\ combined[j].k = "ref"
              /\ combined[j].sep = "."
              /\ N(combined[j].ds, ".", combined[j].nm)
                   = MOZFUN_ROUTINES[r].name ) =>
                /\ sql[j].ds = combined[j].ds
                /\ sql[j].nm = combined[j].nm
                /\ sql[j].sep = "_"
                /\ sql[j].gen = ~MOZFUN_ROUTINES[r].is_udf

-----------------------------------------------------------------------------
(* The dependency graph of the catalog, for stating the claims *)

Cataloged == DOMAIN raw_udfs
CatalogedDeps(n) == Range(raw_udfs[n].dependencies) \cap Cataloged

RECURSIVE Closure(_)
Closure(S) ==
    LET T == S \cup UNION { CatalogedDeps(a) : a \in S }
    IN  IF T = S THEN S ELSE Closure(T)

\* the cataloged names reachable from n, n included when cataloged
Reach(n) == IF n \in Cataloged THEN Closure({n}) ELSE {}
OnCycle(n) == n \in Cataloged /\ n \in Closure(CatalogedDeps(n))
Acyclic == \A n \in Cataloged : ~OnCycle(n)

IndexOf(s, x) == IndexOfName(s, x)
NoDuplicates(s) == \A x, y \in 1..Len(s) : s[x] = s[y] => x = y
DependenciesFirst(s) ==
    \A a \in Range(s) \cap Cataloged : \A b \in CatalogedDeps(a) :
        b \in Range(s) /\ IndexOf(s, b) < IndexOf(s, a)

DefOf(n) == raw_udfs[n].definitions[1]
Referenced == Range(udf_usages_in_text(text)) \cap Cataloged

\* C1: on a catalog with a dependency cycle reachable from the start name,
\* accumulate_dependencies ends by raising CyclicDependency: it never
\* recurses until the call stack is exhausted.
C1_CycleNeverExhaustsStack ==
    (\E m \in Reach(last.name) : OnCycle(m)) => pc # "RecursionError"

\* C2: on an acyclic catalog, whenever a top-level accumulate_dependencies
\* call has returned (the first one, or a later one that was handed the
\* accumulated list), every cataloged routine of the result comes strictly
\* after each of its cataloged dependencies.
C2_DependenciesBeforeDependents ==
    (Acyclic /\ last.done) => DependenciesFirst(last.result)

C2_Witness ==
    /\ Acyclic /\ last.done
    /\ last.arg # << >>
    /\ Len(last.result) > Len(last.arg)
    /\ \E a \in Range(last.result) : CatalogedDeps(a) # {}

\* C10: on an acyclic catalog, accumulate_dependencies called with an empty
\* list returns a duplicate-free sequence whose elements are exactly the
\* cataloged names reachable from the start name; a name absent from the
\* catalog adds nothing and raises nothing.
C10_ResultIsReachableSet ==
    (Acyclic /\ last.done /\ last.arg = << >>) =>
        /\ NoDuplicates(last.result)
        /\ Range(last.result) = Reach(last.name)

C10_Witness ==
    /\ Acyclic /\ last.done /\ last.arg = << >>
    /\ Len(last.result) >= 2
    /\ \E a \in Reach(last.name) :
          Range(raw_udfs[a].dependencies) \ Cataloged # {}

\* C7 as stated: for a test that references a cataloged routine A depending
\* on a cataloged routine B, the prepended definitions hold B's definition
\* strictly before A's, both before the test text.
C7_DefinitionsPrecedeTest ==
    pc = "prepended" =>
        \A A \in Referenced : \A B \in CatalogedDeps(A) :
            \E x, y \in 1..Len(statements) :
                x < y /\ statements[x] = DefOf(B) /\ statements[y] = DefOf(A)

\* C7 amended: the same, for the definitions that the test text does not
\* already contain (udf_usage_definitions prepends no statement that is
\* textually in the test), and the output is those statements followed by
\* the test text.
C7_AbsentDefinitionsPrecedeTest ==
    pc = "prepended" =>
        /\ sql = Flatten(statements) \o text
        /\ \A A \in Referenced : \A B \in CatalogedDeps(A) :
              (~IsSubSeq(DefOf(A), text) /\ ~IsSubSeq(DefOf(B), text)) =>
                \E x, y \in 1..Len(statements) :
                    x < y /\ statements[x] = DefOf(B)
                          /\ statements[y] = DefOf(A)

C7_Witness ==
    /\ pc = "prepended"
    /\ Len(statements) >= 2
    /\ \E A \in Referenced : \E B \in CatalogedDeps(A) :
          ~IsSubSeq(DefOf(A), text) /\ ~IsSubSeq(DefOf(B), text)

-----------------------------------------------------------------------------
(* Claims about from_text *)

IsDefinition(st) ==
    \/ StartsWith(st, "create or replace function")
    \/ StartsWith(st, "create temp function")
    \/ StartsWith(st, "create or replace procedure")

LoopDone == fpc # "loop" \/ i > Len(input.statements)

\* C3: a RawUdf built with is_defined=True never lists its own name
\* (internal_name) among its dependencies.
C3_NoSelfDependency ==
    (result = "RawUdf" /\ input.is_defined) =>
        internal_name \notin Range(dependencies)

\* C4: when a free-standing `begin` statement opened a span that no later
\* statement ending with `end;` closed, from_text fails: it returns no record.
C4_UnterminatedSpanFails ==
    (fpc = "done" /\ procedure_start # -1) => result # "RawUdf"

NoDefinitionNamesRoutine ==
    \A j \in 1..Len(input.statements) :
        IsDefinition(input.statements[j]) =>
            /\ ~NameInStatement(persistent_name, input.statements[j])
            /\ ~NameInStatement(temp_name, input.statements[j])

\* C5: with no definition statement naming dataset.name or dataset_name,
\* from_text fails with the expected-a-function error when is_defined=True
\* and returns a record when is_defined=False.
C5_DefinitionRequiredUnlessOptedOut ==
    ( /\ fpc = "done" /\ Len(input.statements) > 0
      /\ NoDefinitionNamesRoutine /\ UDF_NAME_RE(prod_name) ) =>
        IF input.is_defined
        THEN result = "ValueError: Expected a function"
        ELSE result = "RawUdf"

\* C8: every statement classified as a stored-procedure definition is in
\* definitions and in tests (the last entry of both right after it was
\* classified) and sets is_stored_procedure; a record built from exactly one
\* such statement naming dataset.name has definitions = tests = that statement.
C8_ProcedureIsDefinitionAndTest ==
    /\ \A j \in 1..(i - 1) :
          StartsWith(input.statements[j], "create or replace procedure") =>
            /\ is_stored_procedure
            /\ input.statements[j] \in Range(definitions)
            /\ input.statements[j] \in Range(tests)
            /\ (fpc = "loop" /\ j = i - 1) =>
                  /\ definitions[Len(definitions)] = input.statements[j]
                  /\ tests[Len(tests)] = input.statements[j]
    /\ ( /\ result = "RawUdf"
         /\ Len(input.statements) = 1
         /\ StartsWith(input.statements[1], "create or replace procedure")
         /\ NameInStatement(persistent_name, input.statements[1]) ) =>
            /\ definitions = input.statements
            /\ tests = input.statements
            /\ is_stored_procedure

C8_Witness ==
    /\ result = "RawUdf"
    /\ input.is_defined
    /\ Len(input.statements) = 1
    /\ StartsWith(input.statements[1], "create or replace procedure")
    /\ NameInStatement(persistent_name, input.statements[1])
    /\ tests = input.statements

RECURSIVE ClaimedTests(_, _, _, _)
\* The tests C9 describes for statements ss from index k on, where open is
\* the index of the statement that opened the current span (-1: none).
ClaimedTests(ss, k, open, acc) ==
    IF k > Len(ss) THEN acc
    ELSE IF StartsWith(ss[k], "create or replace procedure")
    THEN ClaimedTests(ss, k + 1, open, Append(acc, ss[k]))
    ELSE IF IsDefinition(ss[k])
    THEN ClaimedTests(ss, k + 1, open, acc)
    ELSE LET from == IF open = -1 /\ StartsWith(ss[k], "begin")
                     THEN k ELSE open
         IN  IF from = -1
             THEN ClaimedTests(ss, k + 1, -1, Append(acc, ss[k]))
             ELSE IF EndsWithEnd(ss[k])
             THEN ClaimedTests(ss, k + 1, -1,
                               Append(acc, Flatten(SubSeq(ss, from, k))))
             ELSE ClaimedTests(ss, k + 1, from, acc)

\* C9: once a free-standing `begin` statement opens a span, the statements
\* from it through the first later free-standing statement ending with
\* `end;` are one joined test entry and the span resets; every free-standing
\* statement outside a span is a test entry of its own.
C9_SpanIsOneTestEntry ==
    LoopDone => tests = ClaimedTests(input.statements, 1, -1, << >>)

====
